---- MODULE Spec2Model ----
(***************************************************************************)
(* Smart Plant Analysis Service (analysis-service/app).                    *)
(*                                                                         *)
(* One process: module import (config.py, logger.py, main.py), the ASGI    *)
(* startup / shutdown events, and the two routes of api/router.py,         *)
(* GET /v1/health and POST /v1/analyze.  Handlers are `async def` without  *)
(* an await, so each runs to completion on the event loop: one action per  *)
(* handler.                                                                *)
(*                                                                         *)
(* Conventions.  Optional[T] is [some, val].  A URL is the record of its   *)
(* parts [scheme, host, path]; a request string is the sequence of its     *)
(* characters, a literal of the code a string.                             *)
(* A float literal is the fraction [num, den].  A dict is a record, a list *)
(* a sequence.  The Thai literals of the two recommendations are written   *)
(* as ASCII glosses.                                                       *)
(***************************************************************************)
EXTENDS Integers, Sequences, FiniteSets

VARIABLES phase, env, cache, constructions, root_level, clock, log, last,
          served, flags, handled

vars == <<phase, env, cache, constructions, root_level, clock, log, last,
          served, flags, handled>>

----------------------------------------------------------------------------
(* Bounds *)

MaxRequests == 2
MaxClock == 2
TicksPerSec == 2

----------------------------------------------------------------------------
(* Values *)

Unset == "<unset>"

EmptyUrl == [scheme |-> "", host |-> "", path |-> ""]
NoneUrl == [some |-> FALSE, val |-> EmptyUrl]
SomeUrl(u) == [some |-> TRUE, val |-> u]

NoneStr == [some |-> FALSE, val |-> <<>>]
SomeStr(s) == [some |-> TRUE, val |-> s]

\* imageUrl values a client can put in the JSON body
RawUrls ==
  { NoneUrl,
    SomeUrl(EmptyUrl),
    SomeUrl([scheme |-> "ftp", host |-> "example.com", path |-> "/plant.jpg"]),
    SomeUrl([scheme |-> "https", host |-> "example.com", path |-> "/plant.jpg"]) }

\* imageBase64 values a client can put in the JSON body
RawBase64s ==
  { NoneStr,
    SomeStr(<<>>),
    SomeStr(<<"a", "G", "k", "=">>) }

Float(n, d) == [num |-> n, den |-> d]

NoBody == [kind |-> "none"]

NoRequest ==
  [route |-> "none", imageUrl |-> NoneUrl, imageBase64 |-> NoneStr,
   status |-> 0, detail |-> "", error |-> "", body |-> NoBody,
   calls |-> 0, flagRead |-> <<>>, emitted |-> <<>>]

----------------------------------------------------------------------------
(* config.py *)

ParseBool(s) == s = "true"

\* Settings(): a field takes the environment's value when set, else its default
Settings(e) ==
  [service_name |-> "smart-plant-analysis",
   log_level |-> IF e.LOG_LEVEL = Unset THEN "info" ELSE e.LOG_LEVEL,
   model_path |-> "/models/plant_classifier.onnx",
   mock_analysis |-> IF e.MOCK_ANALYSIS = Unset THEN TRUE
                     ELSE ParseBool(e.MOCK_ANALYSIS)]

NoCache == [filled |-> FALSE, value |-> Settings([LOG_LEVEL |-> Unset, MOCK_ANALYSIS |-> Unset])]

\* get_settings() without @lru_cache: every call constructs from the environment
get_settings_uncached(c, e) ==
  [value |-> Settings(e),
   cache |-> [filled |-> TRUE, value |-> Settings(e)],
   built |-> 1]

\* @lru_cache get_settings(): construct on a miss, return the cached object on a hit
get_settings(c, e) ==
  IF c.filled
  THEN [value |-> c.value, cache |-> c, built |-> 0]
  ELSE [value |-> Settings(e),
        cache |-> [filled |-> TRUE, value |-> Settings(e)],
        built |-> 1]

----------------------------------------------------------------------------
(* logger.py *)

\* str.upper() on the level names the environment can supply
Upper(s) ==
  CASE s = "debug" -> "DEBUG"
    [] s = "info" -> "INFO"
    [] s = "warning" -> "WARNING"

\* getattr(logging, name, logging.INFO)
LevelOf(name) ==
  CASE name = "DEBUG" -> 10
    [] name = "INFO" -> 20
    [] name = "WARNING" -> 30
    [] OTHER -> 20

PyBool(b) == [kind |-> "bool", val |-> b]

Record(levelname, msg, extra) ==
  [levelname |-> levelname, msg |-> msg, extra |-> extra]

\* Logger.debug / Logger.info: a record is made only if the level is enabled
logger_emit(level, levelname, msg, extra) ==
  IF LevelOf(levelname) >= level
  THEN <<Record(levelname, msg, extra)>>
  ELSE <<>>

----------------------------------------------------------------------------
(* services/analyzer.py *)

TwoDigits(n) == <<n \div 10, n % 10>>

\* datetime.utcnow().replace(microsecond=0).isoformat() + "Z" at clock tick t
_now_iso(t) ==
  LET s == t \div TicksPerSec
  IN [day |-> s \div 86400,
      hh |-> TwoDigits((s \div 3600) % 24),
      mm |-> TwoDigits((s \div 60) % 60),
      ss |-> TwoDigits(s % 60),
      tz |-> "Z"]

NoName == [some |-> FALSE, val |-> ""]

\* the second tip names its text field differently from the first
recommendations_mixed_keys ==
  << [id |-> "tip_water_adjust",
      title |-> "reduce watering",
      desc |-> "reduce the frequency to every 5 days"],
     [id |-> "tip_light",
      title |-> "more soft light",
      description |-> "place near a light-filtering window in the morning"] >>

recommendations ==
  << [id |-> "tip_water_adjust",
      title |-> "reduce watering",
      desc |-> "reduce the frequency to every 5 days"],
     [id |-> "tip_light",
      title |-> "more soft light",
      desc |-> "place near a light-filtering window in the morning"] >>

\* run_mock_analysis with `plant_name` in place of `plant_name or "Monstera Deliciosa"`
run_mock_analysis_no_default(plant_name, level, t1, t2) ==
  [emitted |-> logger_emit(level, "DEBUG", "Running mock analysis", <<>>),
   result |->
     [id |-> "analysis_mock_001",
      status |-> "completed",
      plantName |-> plant_name.val,
      issues |-> << [code |-> "yellow_leaf", severity |-> "moderate",
                     confidence |-> Float(72, 100)] >>,
      score |-> Float(85, 100),
      recommendations |-> recommendations,
      weatherSnapshot |-> [tempC |-> 33, humidity |-> 70,
                           condition |-> "sunny",
                           capturedAt |-> _now_iso(t1)],
      createdAt |-> _now_iso(t2)]]

\* run_mock_analysis(plant_name): t1, t2 are the clock at its two _now_iso() calls
run_mock_analysis(plant_name, level, t1, t2) ==
  [emitted |-> logger_emit(level, "DEBUG", "Running mock analysis", <<>>),
   result |->
     [id |-> "analysis_mock_001",
      status |-> "completed",
      plantName |-> IF plant_name.some /\ plant_name.val # ""
                    THEN plant_name.val ELSE "Monstera Deliciosa",
      issues |-> << [code |-> "yellow_leaf", severity |-> "moderate",
                     confidence |-> Float(72, 100)] >>,
      score |-> Float(85, 100),
      recommendations |-> recommendations,
      weatherSnapshot |-> [tempC |-> 33, humidity |-> 70,
                           condition |-> "sunny",
                           capturedAt |-> _now_iso(t1)],
      createdAt |-> _now_iso(t2)]]

\* bool(x) of an Optional[HttpUrl] / Optional[str]
bool_url(x) == x.some /\ x.val # EmptyUrl
bool_str(x) == x.some /\ Len(x.val) > 0

\* extra={"url": image_url, "hasBase64": bool(image_base64)}
ReceivedExtra_logs_url(image_url, image_base64) ==
  << [key |-> "url", value |-> [kind |-> "url", val |-> image_url]],
     [key |-> "hasBase64", value |-> PyBool(bool_str(image_base64))] >>

ReceivedExtra(image_url, image_base64) ==
  << [key |-> "hasUrl", value |-> PyBool(bool_url(image_url))],
     [key |-> "hasBase64", value |-> PyBool(bool_str(image_base64))] >>

\* analyze_image that runs the mock analysis whatever settings.mock_analysis is
analyze_image_always_mock(image_url, image_base64, c, e, level, t1, t2) ==
  LET got == get_settings(c, e)
      received == logger_emit(level, "INFO", "Received analysis request",
                              ReceivedExtra(image_url, image_base64))
      mock == run_mock_analysis(NoName, level, t1, t2)
  IN [cache |-> got.cache,
      built |-> got.built,
      flag |-> got.value.mock_analysis,
      emitted |-> received \o mock.emitted,
      raised |-> "",
      result |-> mock.result]

\* analyze_image that passes the URL's path to run_mock_analysis as plant_name
analyze_image_named_from_url(image_url, image_base64, c, e, level, t1, t2) ==
  LET got == get_settings(c, e)
      settings == got.value
      received == logger_emit(level, "INFO", "Received analysis request",
                              ReceivedExtra(image_url, image_base64))
      mock == run_mock_analysis([some |-> image_url.some,
                                 val |-> image_url.val.path], level, t1, t2)
  IN [cache |-> got.cache,
      built |-> got.built,
      flag |-> settings.mock_analysis,
      emitted |-> IF settings.mock_analysis
                  THEN received \o mock.emitted ELSE received,
      raised |-> IF settings.mock_analysis THEN "" ELSE "NotImplementedError",
      result |-> IF settings.mock_analysis THEN mock.result ELSE NoBody]

\* analyze_image(image_url, image_base64)
analyze_image(image_url, image_base64, c, e, level, t1, t2) ==
  LET got == get_settings(c, e)
      settings == got.value
      received == logger_emit(level, "INFO", "Received analysis request",
                              ReceivedExtra(image_url, image_base64))
      mock == run_mock_analysis(NoName, level, t1, t2)
  IN [cache |-> got.cache,
      built |-> got.built,
      flag |-> settings.mock_analysis,
      emitted |-> IF settings.mock_analysis
                  THEN received \o mock.emitted ELSE received,
      raised |-> IF settings.mock_analysis THEN "" ELSE "NotImplementedError",
      result |-> IF settings.mock_analysis THEN mock.result ELSE NoBody]

----------------------------------------------------------------------------
(* api/router.py *)

\* imageUrl: HttpUrl | None -- an http(s) scheme and a host are required
IsHttpUrl(u) == u.scheme \in {"http", "https"} /\ u.host # ""

\* AnalyzeRequest(**body): FALSE when the body is rejected before the handler runs
ParsesAsAnalyzeRequest(rawUrl, rawBase64) ==
  rawUrl.some => IsHttpUrl(rawUrl.val)

ValidationMessage == "Either imageUrl or imageBase64 must be provided"

\* validate_payload testing `is None` in place of truthiness
validate_payload_none_only(imageUrl, imageBase64) ==
  IF ~imageUrl.some /\ ~imageBase64.some
  THEN ValidationMessage
  ELSE ""

\* validate_payload with `or` in place of `and`
validate_payload_requires_both(imageUrl, imageBase64) ==
  IF ~bool_url(imageUrl) \/ ~bool_str(imageBase64)
  THEN ValidationMessage
  ELSE ""

\* AnalyzeRequest.validate_payload: the ValueError it raises, "" when it returns
validate_payload(imageUrl, imageBase64) ==
  IF ~bool_url(imageUrl) /\ ~bool_str(imageBase64)
  THEN ValidationMessage
  ELSE ""

\* the health payload without its envelope
HealthBody_bare == [status |-> "ok"]

HealthBody == [data |-> [status |-> "ok"], meta |-> <<>>, errors |-> <<>>]

\* AnalyzeResponse(**result): the eight declared fields of the result
AnalyzeResponse(result) ==
  [id |-> result.id, status |-> result.status, plantName |-> result.plantName,
   issues |-> result.issues, score |-> result.score,
   recommendations |-> result.recommendations,
   weatherSnapshot |-> result.weatherSnapshot, createdAt |-> result.createdAt]

\* GET /v1/health
health ==
  /\ phase = "serving"
  /\ handled < MaxRequests
  /\ handled' = handled + 1
  /\ last' = [NoRequest EXCEPT !.route = "health", !.status = 200,
                               !.body = HealthBody]
  /\ UNCHANGED <<phase, env, cache, constructions, root_level, clock, log,
                 served, flags>>

\* POST /v1/analyze, body rejected by the request model: 422, handler not run
analyze_unprocessable(rawUrl, rawBase64) ==
  /\ ~ParsesAsAnalyzeRequest(rawUrl, rawBase64)
  /\ last' = [NoRequest EXCEPT !.route = "analyze", !.imageUrl = rawUrl,
                               !.imageBase64 = rawBase64, !.status = 422,
                               !.error = "RequestValidationError"]
  /\ UNCHANGED <<cache, constructions, clock, log, served, flags>>

\* the handler calling analyze_image before validate_payload
analyze_rejected_analysis_first(rawUrl, rawBase64) ==
  /\ ParsesAsAnalyzeRequest(rawUrl, rawBase64)
  /\ validate_payload(rawUrl, rawBase64) # ""
  /\ LET r == analyze_image(rawUrl, rawBase64, cache, env, root_level,
                            clock, clock)
     IN /\ cache' = r.cache
        /\ constructions' = constructions + r.built
        /\ flags' = flags \cup {r.flag}
        /\ log' = log \o r.emitted
        /\ last' = [NoRequest EXCEPT !.route = "analyze",
                       !.imageUrl = rawUrl, !.imageBase64 = rawBase64,
                       !.status = 400,
                       !.detail = validate_payload(rawUrl, rawBase64),
                       !.error = "HTTPException",
                       !.calls = 1, !.flagRead = <<r.flag>>,
                       !.emitted = r.emitted]
  /\ UNCHANGED <<clock, served>>

\* POST /v1/analyze, validate_payload raises: HTTPException(400, str(exc))
analyze_rejected(rawUrl, rawBase64) ==
  /\ ParsesAsAnalyzeRequest(rawUrl, rawBase64)
  /\ validate_payload(rawUrl, rawBase64) # ""
  /\ last' = [NoRequest EXCEPT !.route = "analyze", !.imageUrl = rawUrl,
                               !.imageBase64 = rawBase64, !.status = 400,
                               !.detail = validate_payload(rawUrl, rawBase64),
                               !.error = "HTTPException"]
  /\ UNCHANGED <<cache, constructions, clock, log, served, flags>>

\* POST /v1/analyze, validate_payload returns: analyze_image, then the response
analyze_accepted(rawUrl, rawBase64, d) ==
  /\ ParsesAsAnalyzeRequest(rawUrl, rawBase64)
  /\ validate_payload(rawUrl, rawBase64) = ""
  /\ clock + d <= MaxClock
  /\ LET r == analyze_image(rawUrl, rawBase64, cache, env, root_level,
                            clock, clock + d)
     IN /\ cache' = r.cache
        /\ constructions' = constructions + r.built
        /\ flags' = flags \cup {r.flag}
        /\ log' = log \o r.emitted
        /\ clock' = clock + d
        /\ IF r.raised = ""
           THEN /\ last' = [NoRequest EXCEPT !.route = "analyze",
                               !.imageUrl = rawUrl, !.imageBase64 = rawBase64,
                               !.status = 200,
                               !.body = AnalyzeResponse(r.result),
                               !.calls = 1, !.flagRead = <<r.flag>>,
                               !.emitted = r.emitted]
                /\ served' = served \cup
                      {[imageUrl |-> rawUrl, imageBase64 |-> rawBase64,
                        body |-> AnalyzeResponse(r.result)]}
           ELSE /\ last' = [NoRequest EXCEPT !.route = "analyze",
                               !.imageUrl = rawUrl, !.imageBase64 = rawBase64,
                               !.status = 500, !.error = r.raised,
                               !.calls = 1, !.flagRead = <<r.flag>>,
                               !.emitted = r.emitted]
                /\ served' = served

\* POST /v1/analyze
analyze ==
  /\ phase = "serving"
  /\ handled < MaxRequests
  /\ handled' = handled + 1
  /\ \E rawUrl \in RawUrls, rawBase64 \in RawBase64s :
        \/ analyze_unprocessable(rawUrl, rawBase64)
        \/ analyze_rejected(rawUrl, rawBase64)
        \/ \E d \in 0..1 : analyze_accepted(rawUrl, rawBase64, d)
  /\ UNCHANGED <<phase, env, root_level>>

----------------------------------------------------------------------------
(* main.py, and the module-level code of logger.py *)

\* import of app.main: logger.py:5 and main.py:8 call get_settings(),
\* logger.py:7 sets the root logger's level
import_modules ==
  /\ phase = "unloaded"
  /\ LET first == get_settings(cache, env)
         second == get_settings(first.cache, env)
     IN /\ cache' = second.cache
        /\ constructions' = constructions + first.built + second.built
        /\ root_level' = LevelOf(Upper(first.value.log_level))
  /\ phase' = "loaded"
  /\ UNCHANGED <<env, clock, log, last, served, flags, handled>>

\* on_startup
on_startup ==
  /\ phase = "loaded"
  /\ log' = log \o logger_emit(root_level, "INFO", "Analysis service starting",
                 << [key |-> "mock",
                     value |-> PyBool(cache.value.mock_analysis)] >>)
  /\ phase' = "serving"
  /\ UNCHANGED <<env, cache, constructions, root_level, clock, last, served,
                 flags, handled>>

\* on_shutdown
on_shutdown ==
  /\ phase = "serving"
  /\ log' = log \o logger_emit(root_level, "INFO",
                               "Analysis service shutting down", <<>>)
  /\ phase' = "stopped"
  /\ UNCHANGED <<env, cache, constructions, root_level, clock, last, served,
                 flags, handled>>

----------------------------------------------------------------------------
(* Environment of the process *)

EnvValues ==
  [LOG_LEVEL : {Unset, "debug", "warning"},
   MOCK_ANALYSIS : {Unset, "true", "false"}]

\* one variable of the environment / .env.local is edited while the process lives
env_change ==
  /\ phase # "stopped"
  /\ \E e \in EnvValues :
       /\ e # env
       /\ e.LOG_LEVEL = env.LOG_LEVEL \/ e.MOCK_ANALYSIS = env.MOCK_ANALYSIS
       /\ env' = e
  /\ UNCHANGED <<phase, cache, constructions, root_level, clock, log, last,
                 served, flags, handled>>

\* wall-clock time passes
tick ==
  /\ phase # "stopped"
  /\ clock < MaxClock
  /\ clock' = clock + 1
  /\ UNCHANGED <<phase, env, cache, constructions, root_level, log, last,
                 served, flags, handled>>

Init ==
  /\ phase = "unloaded"
  /\ env \in EnvValues
  /\ cache = NoCache
  /\ constructions = 0
  /\ root_level = 30
  /\ clock = 0
  /\ log = <<>>
  /\ last = NoRequest
  /\ served = {}
  /\ flags = {}
  /\ handled = 0

Next ==
  \/ import_modules
  \/ on_startup
  \/ health
  \/ analyze
  \/ on_shutdown
  \/ env_change
  \/ tick

Spec == Init /\ [][Next]_vars

----------------------------------------------------------------------------
(* Properties *)

MockEnabled == cache.filled /\ cache.value.mock_analysis
MockDisabled == cache.filled /\ ~cache.value.mock_analysis

UrlGiven == last.imageUrl.some /\ last.imageUrl.val # EmptyUrl
Base64Given == last.imageBase64.some /\ last.imageBase64.val # <<>>

\* the request body is one the request model accepts
UrlWellFormed ==
  last.imageUrl.some =>
    /\ last.imageUrl.val.scheme \in {"http", "https"}
    /\ last.imageUrl.val.host # ""

\* C1: an analyze request without imageUrl and with imageBase64 absent or
\* empty is answered 400 with the exact validation message, whatever the
\* mock flag.
C1_MissingSources400 ==
  (/\ last.route = "analyze"
   /\ ~last.imageUrl.some
   /\ (~last.imageBase64.some \/ last.imageBase64.val = <<>>))
  => (/\ last.status = 400
      /\ last.detail = "Either imageUrl or imageBase64 must be provided")

C1_Witness ==
  /\ last.route = "analyze"
  /\ ~last.imageUrl.some
  /\ last.imageBase64.some /\ last.imageBase64.val = <<>>
  /\ MockDisabled
  /\ last.status = 400

MockOkShape ==
  /\ last.status = 200
  /\ last.body # NoBody
  /\ last.body.status = "completed"
  /\ 0 <= last.body.score.num /\ last.body.score.num <= last.body.score.den
  /\ Len(last.body.issues) > 0
  /\ Len(last.body.recommendations) > 0

\* C2 as stated: every analyze request with a non-empty imageUrl or
\* imageBase64 is answered 200 / completed under mock mode.
C2_AnySource200 ==
  (last.route = "analyze" /\ (UrlGiven \/ Base64Given) /\ MockEnabled)
  => MockOkShape

\* C2 amended: every analyze request whose imageUrl is absent or a
\* well-formed http(s) URL, with a non-empty imageUrl or imageBase64, is
\* answered 200 with status completed, score in [0,1] and non-empty issues
\* and recommendations under mock mode.
C2_WellFormedSource200 ==
  (/\ last.route = "analyze"
   /\ UrlWellFormed
   /\ (UrlGiven \/ Base64Given)
   /\ MockEnabled)
  => MockOkShape

C2_Witness ==
  /\ last.route = "analyze"
  /\ UrlGiven /\ Base64Given
  /\ MockEnabled
  /\ last.status = 200

\* C3: with mock mode disabled, an analyze request that passes validation
\* fails with NotImplementedError: no 200, no AnalyzeResponse body.
C3_DisabledNotImplemented ==
  (/\ last.route = "analyze"
   /\ UrlWellFormed
   /\ (UrlGiven \/ Base64Given)
   /\ MockDisabled)
  => (/\ last.error = "NotImplementedError"
      /\ last.status # 200
      /\ last.body = NoBody)

C3_Witness ==
  /\ last.route = "analyze"
  /\ Base64Given
  /\ MockDisabled
  /\ last.error = "NotImplementedError"

\* C4: under mock mode the body of a 200 analyze response carries the fixed
\* literal values.
C4_MockLiterals ==
  (last.route = "analyze" /\ last.status = 200)
  => (/\ last.body.id = "analysis_mock_001"
      /\ last.body.status = "completed"
      /\ last.body.plantName = "Monstera Deliciosa"
      /\ last.body.issues =
           << [code |-> "yellow_leaf", severity |-> "moderate",
               confidence |-> [num |-> 72, den |-> 100]] >>
      /\ last.body.score = [num |-> 85, den |-> 100]
      /\ Len(last.body.recommendations) = 2
      /\ last.body.weatherSnapshot.tempC = 33
      /\ last.body.weatherSnapshot.humidity = 70
      /\ last.body.weatherSnapshot.condition = "sunny")

C4_Witness ==
  /\ last.route = "analyze"
  /\ last.status = 200
  /\ UrlGiven
  /\ MockEnabled

\* C5 as stated: every recommendation of a mock response has exactly the
\* fields id, title and description.
C5_FieldsIdTitleDescription ==
  (last.route = "analyze" /\ last.status = 200)
  => \A i \in DOMAIN last.body.recommendations :
       DOMAIN last.body.recommendations[i] = {"id", "title", "description"}

\* C5 amended: every recommendation of a mock response has exactly the
\* fields id, title and desc.
C5_FieldsIdTitleDesc ==
  (last.route = "analyze" /\ last.status = 200)
  => \A i \in DOMAIN last.body.recommendations :
       DOMAIN last.body.recommendations[i] = {"id", "title", "desc"}

C5_Witness ==
  /\ last.route = "analyze"
  /\ last.status = 200
  /\ Len(last.body.recommendations) = 2

Epoch == _now_iso(0)

WithoutTimestamps(body) ==
  [body EXCEPT !.createdAt = Epoch, !.weatherSnapshot.capturedAt = Epoch]

\* C6: any two 200 analyze responses of the process are equal in every field
\* except weatherSnapshot.capturedAt and createdAt, whatever their image
\* sources and whatever was requested before.
C6_BodiesEqualModuloTime ==
  \A a, b \in served :
    WithoutTimestamps(a.body) = WithoutTimestamps(b.body)

C6_Witness ==
  \E a, b \in served :
    /\ a.imageUrl # b.imageUrl
    /\ a.imageBase64 # b.imageBase64
    /\ a.body.createdAt # b.body.createdAt

\* C7: GET /v1/health answers 200 with the fixed envelope, after any earlier
\* requests and for either value of the mock flag.
C7_HealthEnvelope ==
  last.route = "health"
  => (/\ last.status = 200
      /\ last.body = [data |-> [status |-> "ok"], meta |-> <<>>,
                       errors |-> <<>>])

C7_Witness ==
  /\ last.route = "health"
  /\ MockDisabled
  /\ flags = {FALSE}
  /\ handled >= 2

ReceivedRecordsOfLast ==
  {i \in DOMAIN last.emitted :
     last.emitted[i].msg = "Received analysis request"}

OnlyTheTwoBooleans ==
  /\ \A i \in DOMAIN log : \A j \in DOMAIN log[i].extra :
       log[i].extra[j].value.kind = "bool"
  /\ \A i \in ReceivedRecordsOfLast :
       last.emitted[i].extra =
         << [key |-> "hasUrl", value |-> [kind |-> "bool", val |-> UrlGiven]],
            [key |-> "hasBase64",
             value |-> [kind |-> "bool", val |-> Base64Given]] >>

\* C8 as stated: every call of analyze_image emits exactly one 'Received
\* analysis request' record carrying only the booleans hasUrl and hasBase64,
\* in mock mode or not; no record carries the URL or the payload.
C8_AlwaysOneRecord ==
  /\ OnlyTheTwoBooleans
  /\ last.calls = 1 => Cardinality(ReceivedRecordsOfLast) = 1

\* C8 amended: every call of analyze_image emits exactly one 'Received
\* analysis request' record when the configured log level enables INFO and
\* none when it does not, in mock mode or not; the record carries only the
\* booleans hasUrl and hasBase64, and no record carries the URL or payload.
C8_OneRecordWhenInfoEnabled ==
  /\ OnlyTheTwoBooleans
  /\ last.calls = 1 =>
       Cardinality(ReceivedRecordsOfLast) = IF root_level <= 20 THEN 1 ELSE 0
  /\ last.calls = 0 => ReceivedRecordsOfLast = {}

C8_Witness ==
  /\ last.calls = 1
  /\ MockDisabled
  /\ UrlGiven /\ ~Base64Given
  /\ Cardinality(ReceivedRecordsOfLast) = 1

\* C9: Settings is constructed at most once, the cached object never
\* changes once built, and every analyze request of the process observes
\* the same mock flag.
C9_SettingsBuiltOnce ==
  /\ [](constructions <= 1 /\ Cardinality(flags) <= 1)
  /\ [][cache.filled => cache' = cache]_vars

C9_Witness ==
  /\ cache.filled
  /\ Settings(env).mock_analysis # cache.value.mock_analysis
  /\ flags # {}
  /\ handled >= 2
  /\ last.calls = 1

\* C10: a request that fails validate_payload is answered 400 without
\* analyze_image running (no log record, no read of the mock flag), also
\* with mock mode disabled; a request that passes it runs analyze_image
\* exactly once.
C10_ValidationBeforeAnalysis ==
  /\ [](last.route = "analyze" /\ UrlWellFormed =>
          IF ~UrlGiven /\ ~Base64Given
          THEN /\ last.status = 400
               /\ last.calls = 0
               /\ last.flagRead = <<>>
               /\ last.emitted = <<>>
          ELSE last.calls = 1 /\ Len(last.flagRead) = 1)
  /\ [][handled' # handled /\ last'.status = 400 =>
          log' = log /\ flags' = flags /\ cache' = cache]_vars

C10_Witness ==
  /\ last.route = "analyze"
  /\ last.status = 400
  /\ MockDisabled
  /\ root_level <= 20
  /\ last.emitted = <<>>

====
